---- MODULE Spec2Model ----
(***************************************************************************)
(* Model of the exam portal in src/app.py: the three SQLite tables (users, *)
(* config, questions), the per-browser Streamlit session state, and the    *)
(* script runs of page_login, page_admin and page_exam.  Every run_query   *)
(* call commits on its own connection (lines 17-26), so each query is one  *)
(* atomic step and the runs of different sessions interleave between       *)
(* queries.                                                                *)
(***************************************************************************)
EXTENDS Integers, Sequences, FiniteSets, TLC

VARIABLES
    users,          \* table users: username -> [role, score]        (lines 29-30)
    config,         \* table config: key -> string-encoded value      (lines 31-32)
    questions,      \* table questions, rows in id order              (lines 33-35)
    nextId,         \* AUTOINCREMENT counter of questions.id          (line 34)
    clock,          \* the wall clock read by get_current_time        (lines 46-48)
    sess_user,      \* st.session_state['user'] of each browser session
    sess_role,      \* st.session_state['role'] of each browser session
    user_answers,   \* st.session_state['user_answers'] of each session
    selected_by,    \* history: the student who clicked each stored answer
    pc,             \* position of each session's running script
    loc,            \* local variables of each session's running script
    view,           \* the phase the session's current page shows
    nSaves          \* number of "Save Settings" submissions so far

vars == <<users, config, questions, nextId, clock, sess_user, sess_role,
          user_answers, selected_by, pc, loc, view, nSaves>>

----------------------------------------------------------------------------
\* Bounds of the model.

\* The clock runs over 0..MaxTime (one tick is half a minute).
MaxTime == 4
\* Question ids are handed out up to MaxQid.
MaxQid == 2
\* The admin submits the settings form at most MaxSaves times.
MaxSaves == 1

\* Program constants.
SENTINEL == -999
TicksPerMinute == 2

Sessions == {"s1", "s2"}
Students == {"alice", "bob"}
Usernames == Students \cup {"admin"}
NoUser == "-"
NoneVal == "None"

\* Inputs of the admin's settings form, in clock ticks, minutes and
\* hundredths of a point.
StartTimes == {1}
Durations == {1}
Penalties == {25, 999, -200}

\* Rows of an uploaded CSV: four options and the correct_opt cell, which an
\* empty cell turns into NULL (read back as None).
OptionTexts == <<"A", "B", "C", "D">>
CorrectCells == {"A", "B", NoneVal}
ClickIdx == {1, 2}
Qids == 1..MaxQid

----------------------------------------------------------------------------
\* String-encoded config values, as (kind, value) records.

Missing == [k |-> "missing", v |-> 0]
IsoAware(t) == [k |-> "aware", v |-> t]
IsoNaive(t) == [k |-> "naive", v |-> t]
IntStr(n) == [k |-> "int", v |-> n]
FloatStr(p) == [k |-> "float", v |-> p]
FlagStr(b) == [k |-> "flag", v |-> IF b THEN 1 ELSE 0]
Garbage == [k |-> "text", v |-> 0]

ConfigKeys == {"start_time", "duration", "neg_marking", "penalty", "show_result"}

----------------------------------------------------------------------------
\* Scores are exact rationals <<numerator, denominator>> in lowest terms.

RECURSIVE Gcd(_, _)
Gcd(a, b) == IF b = 0 THEN a ELSE Gcd(b, a % b)

Abs(n) == IF n < 0 THEN -n ELSE n

Frac(n, d) ==
    LET g == Gcd(Abs(n), d)
    IN  <<n \div g, d \div g>>

FromInt(n) == <<n, 1>>

NoAccount == [role |-> "none", score |-> FromInt(0)]

----------------------------------------------------------------------------
\* calculate_and_submit, lines 60-73: the scoring loop and the percentage.

\* One question's award in hundredths of a point: selected = user_ans.get(qid),
\* correct = q[6]; Python's == holds for two None values as well.
Award(q, user_ans, is_neg, pen_val) ==
    LET selected == user_ans[q.id]
        correct == q.correct
    IN  IF selected = correct THEN 100
        ELSE IF selected # NoneVal /\ is_neg THEN -pen_val
        ELSE 0

RECURSIVE SumAwards(_, _, _, _)
SumAwards(qs, user_ans, is_neg, pen_val) ==
    IF qs = <<>> THEN 0
    ELSE Award(Head(qs), user_ans, is_neg, pen_val)
         + SumAwards(Tail(qs), user_ans, is_neg, pen_val)

\* The percentage with an empty bank counted as a full score.
FinalPercentEmptyFull(qs, user_ans, is_neg, pen_val) ==
    IF Len(qs) > 0
    THEN Frac(SumAwards(qs, user_ans, is_neg, pen_val), Len(qs))
    ELSE FromInt(100)

\* final_percent = (score / total) * 100 if total > 0 else 0
FinalPercent(qs, user_ans, is_neg, pen_val) ==
    IF Len(qs) > 0
    THEN Frac(SumAwards(qs, user_ans, is_neg, pen_val), Len(qs))
    ELSE FromInt(0)

\* is_neg and pen_val from the config rows, lines 54-55.
IsNeg(neg_mark) == IF neg_mark # Missing THEN neg_mark = FlagStr(TRUE) ELSE FALSE
PenVal(penalty) == IF penalty # Missing THEN penalty.v ELSE 0

----------------------------------------------------------------------------
\* page_exam, lines 184-201: parsing the schedule and classifying the instant.

\* fromisoformat raises on text that is no timestamp, int() on text that is
\* no integer, and comparing a naive timestamp with the aware clock raises.
ScheduleRaises(start_str, dur_str) ==
    \/ start_str.k \notin {"aware", "naive"}
    \/ dur_str.k # "int"
    \/ start_str.k = "naive"

EndTime(start_str, dur_str) == start_str.v + dur_str.v * TicksPerMinute

\* Phase without the test of line 190: an instant before the start counts as
\* inside the window.
PhaseStartUntested(now, start_str, dur_str) ==
    IF now > EndTime(start_str, dur_str) THEN "EXPIRED"
    ELSE "IN_PROGRESS"

\* Phase with the end of the window excluded (>= for > in line 197).
PhaseEndExcluded(now, start_str, dur_str) ==
    IF now < start_str.v THEN "NOT_STARTED"
    ELSE IF now >= EndTime(start_str, dur_str) THEN "EXPIRED"
    ELSE "IN_PROGRESS"

Phase(now, start_str, dur_str) ==
    IF now < start_str.v THEN "NOT_STARTED"
    ELSE IF now > EndTime(start_str, dur_str) THEN "EXPIRED"
    ELSE "IN_PROGRESS"

----------------------------------------------------------------------------
\* State after init_db on a fresh database file, with no browser session
\* logged in.

NoAnswers == [q \in Qids |-> NoneVal]
NoForm == [start |-> 0, dur |-> 0, neg |-> FALSE, pen |-> 0, show |-> FALSE]
LocInit ==
    [score |-> FromInt(0), start |-> Missing, left |-> 0, neg |-> FALSE,
     pen |-> 0, final |-> FromInt(0), auto |-> FALSE, form |-> NoForm,
     rows |-> <<>>, old |-> <<>>, name |-> NoUser, shown |-> ""]
NoView == "NONE"

Init ==
    /\ users = [u \in Usernames |->
                  IF u = "admin" THEN [role |-> "admin", score |-> FromInt(0)]
                  ELSE NoAccount]
    /\ config = [key \in ConfigKeys |-> Missing]
    /\ questions = <<>>
    /\ nextId = 1
    /\ clock = 0
    /\ sess_user = [s \in Sessions |-> NoUser]
    /\ sess_role = [s \in Sessions |-> NoUser]
    /\ user_answers = [s \in Sessions |-> NoAnswers]
    /\ selected_by = [s \in Sessions |-> [q \in Qids |-> NoUser]]
    /\ pc = [s \in Sessions |-> "idle"]
    /\ loc = [s \in Sessions |-> LocInit]
    /\ view = [s \in Sessions |-> NoView]
    /\ nSaves = 0

Exists(u) == users[u].role # "none"

\* The time passes.
Tick ==
    /\ clock < MaxTime
    /\ clock' = clock + 1
    /\ UNCHANGED <<users, config, questions, nextId, sess_user, sess_role,
                   user_answers, selected_by, pc, loc, view, nSaves>>

----------------------------------------------------------------------------
\* page_login and the logout button of the main script.

\* Login with the right password (lines 86-92); wrong credentials change
\* nothing.
Login(s, u) ==
    /\ pc[s] = "idle"
    /\ sess_user[s] = NoUser
    /\ Exists(u)
    /\ sess_user' = [sess_user EXCEPT ![s] = u]
    /\ sess_role' = [sess_role EXCEPT ![s] = users[u].role]
    /\ view' = [view EXCEPT ![s] = NoView]
    /\ UNCHANGED <<users, config, questions, nextId, clock, user_answers,
                   selected_by, pc, loc, nSaves>>

\* "Create Account": the SELECT of line 100, "User exists" (line 101) when it
\* finds a row.
SignupCheck(s, u) ==
    /\ pc[s] = "idle"
    /\ sess_user[s] = NoUser
    /\ IF Exists(u)
       THEN /\ view' = [view EXCEPT ![s] = "USER_EXISTS"]
            /\ UNCHANGED <<pc, loc>>
       ELSE /\ pc' = [pc EXCEPT ![s] = "signup"]
            /\ loc' = [loc EXCEPT ![s].name = u]
            /\ view' = [view EXCEPT ![s] = NoView]
    /\ UNCHANGED <<users, config, questions, nextId, clock, sess_user,
                   sess_role, user_answers, selected_by, nSaves>>

\* The INSERT as INSERT OR REPLACE: an existing row is overwritten.
SignupInsertOrReplace(s) ==
    /\ pc[s] = "signup"
    /\ users' = [users EXCEPT ![loc[s].name] =
                   [role |-> "student", score |-> FromInt(SENTINEL)]]
    /\ view' = [view EXCEPT ![s] =
                  IF Exists(loc[s].name) THEN "EXCEPTION" ELSE "ACCOUNT_CREATED"]
    /\ pc' = [pc EXCEPT ![s] = "idle"]
    /\ loc' = [loc EXCEPT ![s] = LocInit]
    /\ UNCHANGED <<config, questions, nextId, clock, sess_user, sess_role,
                   user_answers, selected_by, nSaves>>

\* "Create Account": the INSERT of lines 103-104; the primary key rejects a row
\* for a username that was inserted in the meantime.
SignupInsert(s) ==
    /\ pc[s] = "signup"
    /\ users' = IF Exists(loc[s].name) THEN users
                ELSE [users EXCEPT ![loc[s].name] =
                        [role |-> "student", score |-> FromInt(SENTINEL)]]
    /\ view' = [view EXCEPT ![s] =
                  IF Exists(loc[s].name) THEN "EXCEPTION" ELSE "ACCOUNT_CREATED"]
    /\ pc' = [pc EXCEPT ![s] = "idle"]
    /\ loc' = [loc EXCEPT ![s] = LocInit]
    /\ UNCHANGED <<config, questions, nextId, clock, sess_user, sess_role,
                   user_answers, selected_by, nSaves>>

\* The logout button, lines 235-237: only the 'user' key is deleted.
Logout(s) ==
    /\ pc[s] = "idle"
    /\ sess_user[s] # NoUser
    /\ sess_user' = [sess_user EXCEPT ![s] = NoUser]
    /\ view' = [view EXCEPT ![s] = NoView]
    /\ loc' = [loc EXCEPT ![s] = LocInit]
    /\ UNCHANGED <<users, config, questions, nextId, clock, sess_role,
                   user_answers, selected_by, pc, nSaves>>

----------------------------------------------------------------------------
\* page_exam, one step per query.

\* ExamReadScore without the test of line 167: the schedule is looked at
\* whatever the stored score is.
ExamReadScoreUntested(s) ==
    /\ pc[s] = "idle"
    /\ sess_user[s] # NoUser
    /\ sess_role[s] # "admin"
    /\ pc' = [pc EXCEPT ![s] = "start"]
    /\ loc' = [loc EXCEPT ![s] = LocInit]
    /\ view' = [view EXCEPT ![s] = NoView]
    /\ UNCHANGED <<users, config, questions, nextId, clock, sess_user,
                   sess_role, user_answers, selected_by, nSaves>>

\* Line 166: the SELECT of the stored score, and the test of line 167.
ExamReadScore(s) ==
    /\ pc[s] = "idle"
    /\ sess_user[s] # NoUser
    /\ sess_role[s] # "admin"
    /\ LET my_score == users[sess_user[s]].score
       IN  IF my_score # FromInt(SENTINEL)
           THEN /\ pc' = [pc EXCEPT ![s] = "show"]
                /\ loc' = [loc EXCEPT ![s] = [LocInit EXCEPT !.score = my_score]]
           ELSE /\ pc' = [pc EXCEPT ![s] = "start"]
                /\ loc' = [loc EXCEPT ![s] = LocInit]
    /\ view' = [view EXCEPT ![s] = NoView]
    /\ UNCHANGED <<users, config, questions, nextId, clock, sess_user,
                   sess_role, user_answers, selected_by, nSaves>>

\* The SUBMITTED page showing the score whenever a show_result row exists,
\* whatever its value.
ExamShowResultAnyRow(s) ==
    /\ pc[s] = "show"
    /\ view' = [view EXCEPT ![s] = "SUBMITTED"]
    /\ pc' = [pc EXCEPT ![s] = "idle"]
    /\ LET show_res == config["show_result"]
       IN  loc' = [loc EXCEPT ![s] =
                     IF show_res # Missing
                     THEN [LocInit EXCEPT !.shown = "score", !.score = loc[s].score]
                     ELSE [LocInit EXCEPT !.shown = "hidden"]]
    /\ UNCHANGED <<users, config, questions, nextId, clock, sess_user,
                   sess_role, user_answers, selected_by, nSaves>>

\* Lines 168-174: "Exam Submitted.", the score read at line 166 only when
\* show_result is '1', "Results hidden." otherwise.
ExamShowResult(s) ==
    /\ pc[s] = "show"
    /\ view' = [view EXCEPT ![s] = "SUBMITTED"]
    /\ pc' = [pc EXCEPT ![s] = "idle"]
    /\ LET show_res == config["show_result"]
       IN  loc' = [loc EXCEPT ![s] =
                     IF show_res # Missing /\ show_res = FlagStr(TRUE)
                     THEN [LocInit EXCEPT !.shown = "score", !.score = loc[s].score]
                     ELSE [LocInit EXCEPT !.shown = "hidden"]]
    /\ UNCHANGED <<users, config, questions, nextId, clock, sess_user,
                   sess_role, user_answers, selected_by, nSaves>>

\* Line 177: the SELECT of start_time.
ExamReadStart(s) ==
    /\ pc[s] = "start"
    /\ loc' = [loc EXCEPT ![s].start = config["start_time"]]
    /\ pc' = [pc EXCEPT ![s] = "duration"]
    /\ UNCHANGED <<users, config, questions, nextId, clock, sess_user,
                   sess_role, user_answers, selected_by, view, nSaves>>

\* Lines 178-201: the SELECT of duration, the parse, the clock and the time
\* logic.  An exception ends the run with a traceback on the page.
ExamSchedule(s) ==
    /\ pc[s] = "duration"
    /\ LET start_str == loc[s].start
           dur_str == config["duration"]
           now == clock
       IN  IF start_str = Missing \/ dur_str = Missing
           THEN /\ view' = [view EXCEPT ![s] = "NOT_SCHEDULED"]
                /\ pc' = [pc EXCEPT ![s] = "idle"]
                /\ loc' = [loc EXCEPT ![s] = LocInit]
           ELSE IF ScheduleRaises(start_str, dur_str)
           THEN /\ view' = [view EXCEPT ![s] = "EXCEPTION"]
                /\ pc' = [pc EXCEPT ![s] = "idle"]
                /\ loc' = [loc EXCEPT ![s] = LocInit]
           ELSE LET phase == Phase(now, start_str, dur_str)
                    left_sec == EndTime(start_str, dur_str) - now
                IN  /\ view' = [view EXCEPT ![s] = phase]
                    /\ pc' = [pc EXCEPT ![s] =
                          CASE phase = "NOT_STARTED" -> "idle"
                            [] phase = "EXPIRED" -> "neg_marking"
                            [] OTHER -> "render"]
                    /\ loc' = [loc EXCEPT ![s] =
                          [LocInit EXCEPT
                             !.auto = (phase = "EXPIRED"),
                             !.left = IF phase = "IN_PROGRESS" THEN left_sec ELSE 0]]
    /\ UNCHANGED <<users, config, questions, nextId, clock, sess_user,
                   sess_role, user_answers, selected_by, nSaves>>

\* What the student did to trigger this run: nothing (the poll), a click on
\* one radio option, or the submit button.
NoClick == [kind |-> "poll", qid |-> 0, opt |-> NoneVal]
Interactions(qs) ==
    {NoClick, [kind |-> "submit", qid |-> 0, opt |-> NoneVal]}
    \cup {[kind |-> "radio", qid |-> qs[i].id, opt |-> qs[i].opts[j]] :
            i \in DOMAIN qs, j \in ClickIdx}

\* The answer map when a radio widget rendered without a click returns None.
TrackAnswersUnkeyed(answers, qs, act) ==
    [qid \in Qids |->
       IF \E i \in DOMAIN qs : qs[i].id = qid
       THEN IF act.kind = "radio" /\ act.qid = qid THEN act.opt ELSE NoneVal
       ELSE answers[qid]]

\* The answer map after the loop of lines 212-219 over the questions read.
TrackAnswers(answers, qs, act) ==
    [qid \in Qids |->
       IF \E i \in DOMAIN qs : qs[i].id = qid
       THEN IF act.kind = "radio" /\ act.qid = qid THEN act.opt ELSE answers[qid]
       ELSE answers[qid]]

\* The render with the score of the answers so far stored on every run.
RenderWithAutosave(s, act) ==
    /\ pc[s] = "render"
    /\ user_answers' = [user_answers EXCEPT ![s] = TrackAnswers(@, questions, act)]
    /\ selected_by' = [selected_by EXCEPT ![s] =
                         IF act.kind = "radio"
                         THEN [@ EXCEPT ![act.qid] = sess_user[s]]
                         ELSE @]
    /\ users' = [users EXCEPT ![sess_user[s]].score =
                   FinalPercent(questions, user_answers'[s], FALSE, 0)]
    /\ pc' = [pc EXCEPT ![s] = IF act.kind = "submit" THEN "neg_marking" ELSE "idle"]
    /\ loc' = [loc EXCEPT ![s] = LocInit]
    /\ UNCHANGED <<config, questions, nextId, clock, sess_user,
                   sess_role, view, nSaves>>

\* Lines 207-226: the SELECT of the questions, the radio widgets and the
\* submit button, for one interaction.
RenderWith(s, act) ==
    /\ pc[s] = "render"
    /\ user_answers' = [user_answers EXCEPT ![s] = TrackAnswers(@, questions, act)]
    /\ selected_by' = [selected_by EXCEPT ![s] =
                         IF act.kind = "radio"
                         THEN [@ EXCEPT ![act.qid] = sess_user[s]]
                         ELSE @]
    /\ pc' = [pc EXCEPT ![s] = IF act.kind = "submit" THEN "neg_marking" ELSE "idle"]
    /\ loc' = [loc EXCEPT ![s] = LocInit]
    /\ UNCHANGED <<users, config, questions, nextId, clock, sess_user,
                   sess_role, view, nSaves>>

ExamRender(s) == \E act \in Interactions(questions) : RenderWith(s, act)

----------------------------------------------------------------------------
\* calculate_and_submit, one step per query.

\* Line 51 and line 54.
SubmitReadNeg(s) ==
    /\ pc[s] = "neg_marking"
    /\ loc' = [loc EXCEPT ![s].neg = IsNeg(config["neg_marking"])]
    /\ pc' = [pc EXCEPT ![s] = "penalty"]
    /\ UNCHANGED <<users, config, questions, nextId, clock, sess_user,
                   sess_role, user_answers, selected_by, view, nSaves>>

\* Line 52 and line 55.
SubmitReadPenalty(s) ==
    /\ pc[s] = "penalty"
    /\ loc' = [loc EXCEPT ![s].pen = PenVal(config["penalty"])]
    /\ pc' = [pc EXCEPT ![s] = "questions"]
    /\ UNCHANGED <<users, config, questions, nextId, clock, sess_user,
                   sess_role, user_answers, selected_by, view, nSaves>>

\* Lines 57-73: the SELECT of the questions and the score of the session's
\* answer map.
SubmitScore(s) ==
    /\ pc[s] = "questions"
    /\ loc' = [loc EXCEPT ![s].final =
                 FinalPercent(questions, user_answers[s], loc[s].neg, loc[s].pen)]
    /\ pc' = [pc EXCEPT ![s] = "update"]
    /\ UNCHANGED <<users, config, questions, nextId, clock, sess_user,
                   sess_role, user_answers, selected_by, view, nSaves>>

\* Line 74: UPDATE users SET score=? WHERE username=?
SubmitWrite(s) ==
    /\ pc[s] = "update"
    /\ users' = [users EXCEPT ![sess_user[s]].score = loc[s].final]
    /\ pc' = [pc EXCEPT ![s] = "idle"]
    /\ loc' = [loc EXCEPT ![s] = LocInit]
    /\ UNCHANGED <<config, questions, nextId, clock, sess_user, sess_role,
                   user_answers, selected_by, view, nSaves>>

----------------------------------------------------------------------------
\* page_admin.  The reads of lines 116-118 and 155 only fill the page and
\* are left out; each write is one step.

Forms == [start : StartTimes, dur : Durations, neg : BOOLEAN,
          pen : Penalties, show : BOOLEAN]

IsAdminPage(s) == sess_user[s] # NoUser /\ sess_role[s] = "admin"

\* "Save Settings", line 137: the form is read and start_time is written.
SaveStart(s, form) ==
    /\ pc[s] = "idle"
    /\ IsAdminPage(s)
    /\ nSaves < MaxSaves
    /\ nSaves' = nSaves + 1
    /\ config' = [config EXCEPT !["start_time"] = IsoAware(form.start)]
    /\ loc' = [loc EXCEPT ![s].form = form]
    /\ pc' = [pc EXCEPT ![s] = "save_duration"]
    /\ UNCHANGED <<users, questions, nextId, clock, sess_user, sess_role,
                   user_answers, selected_by, view>>

\* Line 138.
SaveDuration(s) ==
    /\ pc[s] = "save_duration"
    /\ config' = [config EXCEPT !["duration"] = IntStr(loc[s].form.dur)]
    /\ pc' = [pc EXCEPT ![s] = "save_neg"]
    /\ UNCHANGED <<users, questions, nextId, clock, sess_user, sess_role,
                   user_answers, selected_by, loc, view, nSaves>>

\* Line 139.
SaveNeg(s) ==
    /\ pc[s] = "save_neg"
    /\ config' = [config EXCEPT !["neg_marking"] = FlagStr(loc[s].form.neg)]
    /\ pc' = [pc EXCEPT ![s] = "save_penalty"]
    /\ UNCHANGED <<users, questions, nextId, clock, sess_user, sess_role,
                   user_answers, selected_by, loc, view, nSaves>>

\* Line 140.
SavePenalty(s) ==
    /\ pc[s] = "save_penalty"
    /\ config' = [config EXCEPT !["penalty"] = FloatStr(loc[s].form.pen)]
    /\ pc' = [pc EXCEPT ![s] = "save_show"]
    /\ UNCHANGED <<users, questions, nextId, clock, sess_user, sess_role,
                   user_answers, selected_by, loc, view, nSaves>>

\* Lines 141-142.
SaveShow(s) ==
    /\ pc[s] = "save_show"
    /\ config' = [config EXCEPT !["show_result"] = FlagStr(loc[s].form.show)]
    /\ pc' = [pc EXCEPT ![s] = "idle"]
    /\ loc' = [loc EXCEPT ![s] = LocInit]
    /\ UNCHANGED <<users, questions, nextId, clock, sess_user, sess_role,
                   user_answers, selected_by, view, nSaves>>

\* The correct_opt cells of the CSV files the admin uploads.
CsvFiles == UNION {[1..n -> CorrectCells] : n \in 0..MaxQid}

\* Rows that running uploads have still to insert (the model hands out ids
\* up to MaxQid only).
RECURSIVE PendingRows(_)
PendingRows(S) ==
    IF S = {} THEN 0
    ELSE LET s == CHOOSE x \in S : TRUE
         IN  Len(loc[s].rows) + PendingRows(S \ {s})

\* "Process CSV", lines 147-148: the file is read and the table is emptied.
UploadDelete(s, rows) ==
    /\ pc[s] = "idle"
    /\ IsAdminPage(s)
    /\ rows \in CsvFiles
    /\ nextId + Len(rows) + PendingRows(Sessions \ {s}) <= MaxQid + 1
    /\ questions' = <<>>
    /\ loc' = [loc EXCEPT ![s].rows = rows, ![s].old = questions]
    /\ pc' = [pc EXCEPT ![s] = "insert"]
    /\ UNCHANGED <<users, config, nextId, clock, sess_user, sess_role,
                   user_answers, selected_by, view, nSaves>>

\* Lines 149-152: one INSERT per row, the id from the AUTOINCREMENT counter.
UploadInsert(s) ==
    /\ pc[s] = "insert"
    /\ IF loc[s].rows = <<>>
       THEN /\ pc' = [pc EXCEPT ![s] = "idle"]
            /\ loc' = [loc EXCEPT ![s] = LocInit]
            /\ UNCHANGED <<questions, nextId>>
       ELSE /\ questions' = Append(questions,
                               [id |-> nextId, opts |-> OptionTexts,
                                correct |-> Head(loc[s].rows)])
            /\ nextId' = nextId + 1
            /\ loc' = [loc EXCEPT ![s].rows = Tail(@)]
            /\ pc' = pc
    /\ UNCHANGED <<users, config, clock, sess_user, sess_role, user_answers,
                   selected_by, view, nSaves>>

----------------------------------------------------------------------------
\* A scenario bounds who uses which browser session and what the admin
\* enters: logins is a set of <<session, username>> pairs, forms the settings
\* forms submitted, files the CSV files uploaded.
NextOf(sc) ==
    \/ Tick
    \/ \E su \in sc.logins : Login(su[1], su[2])
    \/ \E su \in sc.logins : SignupCheck(su[1], su[2])
    \/ \E s \in Sessions : SignupInsert(s)
    \/ \E s \in Sessions : Logout(s)
    \/ \E s \in Sessions : ExamReadScore(s)
    \/ \E s \in Sessions : ExamShowResult(s)
    \/ \E s \in Sessions : ExamReadStart(s)
    \/ \E s \in Sessions : ExamSchedule(s)
    \/ \E s \in Sessions : ExamRender(s)
    \/ \E s \in Sessions : SubmitReadNeg(s)
    \/ \E s \in Sessions : SubmitReadPenalty(s)
    \/ \E s \in Sessions : SubmitScore(s)
    \/ \E s \in Sessions : SubmitWrite(s)
    \/ \E s \in Sessions, form \in sc.forms : SaveStart(s, form)
    \/ \E s \in Sessions : SaveDuration(s)
    \/ \E s \in Sessions : SaveNeg(s)
    \/ \E s \in Sessions : SavePenalty(s)
    \/ \E s \in Sessions : SaveShow(s)
    \/ \E s \in Sessions, rows \in sc.files : UploadDelete(s, rows)
    \/ \E s \in Sessions : UploadInsert(s)

PlainForms == {f \in Forms : f.pen = 25}

\* The admin on one browser and a student on the other, with the plain
\* penalty and banks of well-formed questions.
General ==
    [logins |-> {<<"s1", "admin">>, <<"s2", "alice">>},
     forms |-> PlainForms,
     files |-> {f \in CsvFiles : \A i \in DOMAIN f : f[i] = "A"}]

Next == NextOf(General)

Spec == Init /\ [][Next]_vars

\* The same, with every scoring rule the form accepts.
Scoring ==
    [logins |-> {<<"s1", "admin">>, <<"s2", "alice">>},
     forms |-> {f \in Forms : f.show},
     files |-> {f \in CsvFiles : \A i \in DOMAIN f : f[i] # NoneVal}]

NextScoring == NextOf(Scoring)

SpecScoring == Init /\ [][NextScoring]_vars

\* The same, with the plain penalty and every bank, empty correct_opt cells
\* included.
Bank ==
    [logins |-> {<<"s1", "admin">>, <<"s2", "alice">>},
     forms |-> {f \in PlainForms : f.show},
     files |-> CsvFiles]

NextBank == NextOf(Bank)

SpecBank == Init /\ [][NextBank]_vars

\* One student logged in on two browsers at once.
Race ==
    [logins |-> {<<"s1", "admin">>, <<"s1", "alice">>, <<"s2", "alice">>},
     forms |-> {f \in PlainForms : ~f.neg /\ f.show},
     files |-> {<<"A">>}]

NextRace == NextOf(Race)

SpecRace == Init /\ [][NextRace]_vars

\* Two students who share one browser.
Shared ==
    [logins |-> {<<"s1", "admin">>, <<"s1", "alice">>, <<"s1", "bob">>},
     forms |-> {f \in PlainForms : ~f.neg /\ f.show},
     files |-> {<<"A">>}]

NextShared == NextOf(Shared)

SpecShared == Init /\ [][NextShared]_vars

\* A database file that exists before the program starts: init_db keeps the
\* rows of the config table (CREATE TABLE IF NOT EXISTS, lines 31-32).
StoredStarts == {Missing, IsoAware(1), IsoNaive(1), Garbage}
StoredDurations == {Missing, IntStr(1), Garbage}

InitStore ==
    /\ users = [u \in Usernames |->
                  IF u = "admin" THEN [role |-> "admin", score |-> FromInt(0)]
                  ELSE NoAccount]
    /\ \E st \in StoredStarts, du \in StoredDurations :
          config = [key \in ConfigKeys |->
                      CASE key = "start_time" -> st
                        [] key = "duration" -> du
                        [] OTHER -> Missing]
    /\ questions = <<>>
    /\ nextId = 1
    /\ clock = 0
    /\ sess_user = [s \in Sessions |-> NoUser]
    /\ sess_role = [s \in Sessions |-> NoUser]
    /\ user_answers = [s \in Sessions |-> NoAnswers]
    /\ selected_by = [s \in Sessions |-> [q \in Qids |-> NoUser]]
    /\ pc = [s \in Sessions |-> "idle"]
    /\ loc = [s \in Sessions |-> LocInit]
    /\ view = [s \in Sessions |-> NoView]
    /\ nSaves = 0

Store ==
    [logins |-> {<<"s1", "admin">>, <<"s2", "alice">>},
     forms |-> {f \in PlainForms : ~f.neg /\ f.show},
     files |-> {<<"A">>}]

NextStore == NextOf(Store)

SpecStore == InitStore /\ [][NextStore]_vars

\* A database file in which an earlier "Save Settings" (lines 137-141) stored
\* a complete schedule: the exam starts at instant 0 and lasts two minutes.
OldSchedule == [start |-> 0, dur |-> 2, neg |-> FALSE, pen |-> 25, show |-> TRUE]

InitRescheduled ==
    /\ users = [u \in Usernames |->
                  IF u = "admin" THEN [role |-> "admin", score |-> FromInt(0)]
                  ELSE NoAccount]
    /\ config = [key \in ConfigKeys |->
                   CASE key = "start_time" -> IsoAware(OldSchedule.start)
                     [] key = "duration" -> IntStr(OldSchedule.dur)
                     [] key = "neg_marking" -> FlagStr(OldSchedule.neg)
                     [] key = "penalty" -> FloatStr(OldSchedule.pen)
                     [] OTHER -> FlagStr(OldSchedule.show)]
    /\ questions = <<>>
    /\ nextId = 1
    /\ clock = 0
    /\ sess_user = [s \in Sessions |-> NoUser]
    /\ sess_role = [s \in Sessions |-> NoUser]
    /\ user_answers = [s \in Sessions |-> NoAnswers]
    /\ selected_by = [s \in Sessions |-> [q \in Qids |-> NoUser]]
    /\ pc = [s \in Sessions |-> "idle"]
    /\ loc = [s \in Sessions |-> LocInit]
    /\ view = [s \in Sessions |-> NoView]
    /\ nSaves = 0

\* The admin saves a new schedule over the stored one while a student is on
\* the exam page.
Rescheduled ==
    [logins |-> {<<"s1", "admin">>, <<"s2", "alice">>},
     forms |-> {f \in PlainForms : ~f.neg /\ f.show},
     files |-> {<<"A">>}]

NextRescheduled == NextOf(Rescheduled)

SpecRescheduled == InitRescheduled /\ [][NextRescheduled]_vars

----------------------------------------------------------------------------
\* Steps of a session, recognised by the position of its script.

IsStudent(u) == u # NoUser /\ users[u].role = "student"

\* The step is the score write of session s (line 74).
WritesScore(s) == pc[s] = "update" /\ pc'[s] # "update"

\* The step is the start of an exam-page evaluation by session s (line 166).
StartsEvaluation(s) ==
    /\ pc[s] = "idle" /\ pc'[s] # "idle"
    /\ sess_user[s] # NoUser /\ sess_role[s] = "student"

\* The step is the classification of the instant by session s (lines 178-201).
Classifies(s) == pc[s] = "duration" /\ pc'[s] # "duration"

\* The step is the scoring loop of session s (lines 57-73).
Scores(s) == pc[s] = "questions" /\ pc'[s] # "questions"

----------------------------------------------------------------------------
\* C1. Monotonic submission: once a student's stored score differs from
\* SENTINEL, no step of any session changes it.
MonotonicSubmission ==
    [][\A u \in Students :
         (IsStudent(u) /\ users[u].score # FromInt(SENTINEL))
            => users'[u].score = users[u].score]_vars

\* C2. At most one score write per student: a submission writes the score
\* only while the stored score is still SENTINEL, the losing submission
\* performs no write.
SingleScoreWrite ==
    [][\A s \in Sessions :
         WritesScore(s) => users[sess_user[s]].score = FromInt(SENTINEL)]_vars

\* C3. Auto-submit on expiry: after the EXPIRED evaluation of a session has
\* finished, the next evaluation of that session takes the SUBMITTED branch.
AutoSubmitReachesSubmitted ==
    [][\A s \in Sessions :
         (StartsEvaluation(s) /\ view[s] = "EXPIRED") => pc'[s] = "show"]_vars

\* C4. SENTINEL is distinct from every final score: the value that
\* calculate_and_submit is about to persist is never -999.
SentinelNeverAScore ==
    \A s \in Sessions : pc[s] = "update" => loc[s].final # FromInt(SENTINEL)

\* C5. SUBMITTED has precedence and is terminal: an evaluation that finds a
\* stored score other than SENTINEL goes to the "Exam Submitted." branch
\* whatever the clock and the config hold, and that branch ends the run
\* showing SUBMITTED without a score write, an answer change or scoring.
SubmittedIsTerminal ==
    [][\A s \in Sessions :
         /\ (StartsEvaluation(s) /\ users[sess_user[s]].score # FromInt(SENTINEL))
               => pc'[s] = "show"
         /\ (pc[s] = "show" /\ pc'[s] # "show")
               => /\ view'[s] = "SUBMITTED"
                  /\ pc'[s] = "idle"
                  /\ users' = users
                  /\ user_answers' = user_answers]_vars

\* C5 witness: a submitted student is shown SUBMITTED while the window is
\* still live.
SubmittedWhileLive ==
    \E s \in Sessions :
       /\ view[s] = "SUBMITTED"
       /\ config["start_time"] = IsoAware(1) /\ config["duration"] = IntStr(1)
       /\ clock >= 1 /\ clock <= 3

\* C6. Window classification: with a well-formed schedule the evaluation
\* yields NOT_STARTED exactly when now < start_time, EXPIRED exactly when
\* now > end_time = start_time + duration minutes, IN_PROGRESS otherwise
\* (both boundaries included).
WindowClassification ==
    [][\A s \in Sessions :
         (Classifies(s) /\ loc[s].start.k = "aware" /\ config["duration"].k = "int")
            => LET start_time == loc[s].start.v
                   end_time == start_time + config["duration"].v * TicksPerMinute
               IN  /\ (view'[s] = "NOT_STARTED") <=> (clock < start_time)
                   /\ (view'[s] = "EXPIRED") <=> (clock > end_time)
                   /\ (view'[s] = "IN_PROGRESS")
                         <=> (clock >= start_time /\ clock <= end_time)]_vars

\* C6 witness: an evaluation at now == end_time (no time left) that yields
\* IN_PROGRESS.
InProgressAtEnd ==
    \E s \in Sessions :
       pc[s] = "render" /\ view[s] = "IN_PROGRESS" /\ loc[s].left = 0

Answered(qs, answers) == {i \in DOMAIN qs : answers[qs[i].id] # NoneVal}
NumCorrect(qs, answers) ==
    Cardinality({i \in Answered(qs, answers) : answers[qs[i].id] = qs[i].correct})
NumWrong(qs, answers) ==
    Cardinality({i \in Answered(qs, answers) : answers[qs[i].id] # qs[i].correct})

\* C8. Scoring correctness: over a non-empty bank the computed score is
\* 100 * (C - p * W) / N, an unanswered question contributing 0.
ScoringFormula ==
    [][\A s \in Sessions :
         (Scores(s) /\ Len(questions) > 0)
            => LET C == NumCorrect(questions, user_answers[s])
                   W == NumWrong(questions, user_answers[s])
                   p == IF loc[s].neg THEN loc[s].pen ELSE 0
                   final == loc'[s].final
               IN  final[1] * Len(questions) = (100 * C - p * W) * final[2]]_vars

\* C9. Every stored final score of a student is at most 100.
ScoreAtMost100 ==
    \A u \in Students :
       (IsStudent(u) /\ users[u].score # FromInt(SENTINEL))
          => users[u].score[1] <= 100 * users[u].score[2]

\* C10. Session answers are scoped to one student: every answer that enters
\* the score of a student was selected by that student.
AnswersScopedToStudent ==
    [][\A s \in Sessions :
         Scores(s)
            => \A i \in DOMAIN questions :
                  user_answers[s][questions[i].id] # NoneVal
                     => selected_by[s][questions[i].id] = sess_user[s]]_vars

\* The step is one in which session s reads the question bank: the exam page
\* (line 207) or the scoring loop (line 57).
ReadsBank(s) ==
    \/ Scores(s)
    \/ pc[s] = "render" /\ pc'[s] # "render"

\* C11. The question bank is replaced atomically: while an upload has rows
\* still to insert, every read of the bank by an exam page or by the scoring
\* loop sees the complete set the upload replaced, and once the last row is
\* in it sees the complete new set; it never sees the emptied or partly
\* filled table.
BankReplacedAtomically ==
    [][\A s \in Sessions :
         ReadsBank(s)
            => \A a \in Sessions :
                  (pc[a] = "insert" /\ loc[a].rows # <<>>)
                     => questions = loc[a].old]_vars

\* C12. With an empty question bank the scoring loop computes 0 and goes on
\* to the score write, which stores exactly the computed value, so the student
\* is SUBMITTED with score 0.
EmptyBankScoresZero ==
    [][\A s \in Sessions :
         /\ (Scores(s) /\ questions = <<>>)
               => /\ loc'[s].final = FromInt(0)
                  /\ pc'[s] = "update"
         /\ WritesScore(s)
               => /\ users'[sess_user[s]].score = loc[s].final
                  /\ pc'[s] = "idle"]_vars

\* A student is SUBMITTED with the score 0 computed over a bank into which no
\* question was ever inserted.
SubmittedOnEmptyBank ==
    \E s \in Sessions :
       /\ view[s] = "SUBMITTED"
       /\ IsStudent(sess_user[s])
       /\ users[sess_user[s]].score = FromInt(0)
       /\ nextId = 1

\* C13. A question whose correct_opt is missing is never counted as correct,
\* whatever the student's answer to it: over a bank made only of such
\* questions the computed score is not positive.
MalformedNeverCorrect ==
    [][\A s \in Sessions :
         (Scores(s) /\ \A i \in DOMAIN questions : questions[i].correct = NoneVal)
            => loc'[s].final[1] <= 0]_vars

\* The step is the render of the exam interface by session s (lines 207-226).
Renders(s) == pc[s] = "render" /\ pc'[s] # "render"

\* C14. Answer tracker persistence: a render without a new selection (a poll
\* or the submit button) leaves every entry of the answer map unchanged, a
\* render with a new selection overwrites the entry of that question only,
\* no other step of the program touches the map, and the scoring loop scores
\* the map as it stands, the last selection per question.
AnswerTrackerPersistence ==
    [][\A s \in Sessions :
         /\ IF Renders(s)
            THEN \E act \in Interactions(questions) :
                    /\ user_answers'[s] =
                          IF act.kind = "radio"
                          THEN [user_answers[s] EXCEPT ![act.qid] = act.opt]
                          ELSE user_answers[s]
                    /\ (act.kind = "submit") = (pc'[s] = "neg_marking")
            ELSE user_answers'[s] = user_answers[s]
         /\ Scores(s)
               => loc'[s].final =
                     FinalPercent(questions, user_answers[s], loc[s].neg, loc[s].pen)]_vars

\* A student in progress has an answer selected for both questions of the
\* bank: the render that took the second selection kept the first.
BothQuestionsAnswered ==
    \E s \in Sessions :
       /\ view[s] = "IN_PROGRESS"
       /\ pc[s] = "idle"
       /\ Len(questions) = 2
       /\ \A i \in DOMAIN questions : user_answers[s][questions[i].id] # NoneVal

\* The step is the SUBMITTED branch of the exam page of session s (lines 168-174).
ShowsResult(s) == pc[s] = "show" /\ pc'[s] # "show"

\* C15. Result visibility: the SUBMITTED page shows the score exactly when the
\* show_result row is present and equal to '1' at the time of that
\* evaluation, and "Results hidden." otherwise; the score it shows is the one
\* it read, and the stored scores are left unchanged.
ResultVisibility ==
    [][\A s \in Sessions :
         ShowsResult(s)
            => /\ view'[s] = "SUBMITTED"
               /\ IF config["show_result"] = [k |-> "flag", v |-> 1]
                  THEN loc'[s].shown = "score" /\ loc'[s].score = loc[s].score
                  ELSE loc'[s].shown = "hidden"
               /\ users' = users]_vars

\* A submitted student is told "Results hidden." because show_result is '0'.
ResultHiddenByFlag ==
    \E s \in Sessions :
       /\ view[s] = "SUBMITTED"
       /\ loc[s].shown = "hidden"
       /\ config["show_result"] = FlagStr(FALSE)

\* The schedules saved together so far under SpecRescheduled: the stored one
\* and, once "Save Settings" has been pressed, the one of the form.
SavedTogether ==
    {[start |-> OldSchedule.start, dur |-> OldSchedule.dur]}
    \cup (IF nSaves > 0
          THEN {[start |-> f.start, dur |-> f.dur] : f \in Rescheduled.forms}
          ELSE {})

\* C16. No submission is caused by a torn schedule: an evaluation classifies
\* the instant as EXPIRED, and so submits the student, only if the instant is
\* past start + duration of a schedule the admin saved together.
NoTornSubmission ==
    [][\A s \in Sessions :
         (Classifies(s) /\ view'[s] = "EXPIRED")
            => \E p \in SavedTogether :
                  clock > p.start + p.dur * TicksPerMinute]_vars

\* The step belongs to an exam-page evaluation of session s and comes before
\* any submission: the reads of lines 166-178, the classification and the
\* render of the exam interface.
EvaluatesOnly(s) ==
    \/ StartsEvaluation(s)
    \/ pc[s] \in {"show", "start", "duration", "render"} /\ pc'[s] # pc[s]

\* C17. An evaluation without submission writes nothing: the steps of an
\* exam-page evaluation up to and including the render leave the users, the
\* config and the question bank unchanged, and the score of a student changes
\* only in the score write of that student's own submission, reached from the
\* EXPIRED classification or from the submit button of the IN_PROGRESS page.
EvaluationWritesNothing ==
    [][/\ \A s \in Sessions :
             EvaluatesOnly(s) => UNCHANGED <<users, config, questions>>
       /\ \A u \in Students :
             (IsStudent(u) /\ users'[u].score # users[u].score)
                => \E s \in Sessions :
                      /\ WritesScore(s)
                      /\ sess_user[s] = u
                      /\ \/ view[s] = "EXPIRED" /\ loc[s].auto
                         \/ view[s] = "IN_PROGRESS" /\ ~loc[s].auto]_vars

\* A student with an answer selected has had the exam page rendered, the
\* page is IN_PROGRESS and the stored score is still the sentinel.
RenderedWithoutSubmit ==
    \E s \in Sessions :
       /\ view[s] = "IN_PROGRESS"
       /\ pc[s] = "idle"
       /\ IsStudent(sess_user[s])
       /\ users[sess_user[s]].score = FromInt(SENTINEL)
       /\ \E q \in Qids : user_answers[s][q] # NoneVal

\* The step is the INSERT of a signup by session s (lines 103-104).
SignupInserts(s) == pc[s] = "signup" /\ pc'[s] # "signup"

\* The step is a signup of session s that the SELECT of line 100 turns down.
SignupRefused(s) == view[s] # "USER_EXISTS" /\ view'[s] = "USER_EXISTS"

\* C18. A signup for a username that does not exist inserts a student with
\* score SENTINEL; a signup for a username that exists, refused by the SELECT
\* or by the INSERT, leaves every user's role and score unchanged.
SignupNeverResets ==
    [][\A s \in Sessions :
         /\ SignupInserts(s)
               => IF Exists(loc[s].name)
                  THEN users' = users
                  ELSE users' = [users EXCEPT ![loc[s].name] =
                                   [role |-> "student", score |-> FromInt(SENTINEL)]]
         /\ SignupRefused(s) => users' = users
         /\ (pc[s] = "idle" /\ pc'[s] = "signup") => users' = users]_vars

\* The INSERT of a signup was refused on one browser after the same username
\* had signed up on the other and submitted the exam; the score is kept.
RefusedSignupOfSubmitted ==
    \E s \in Sessions :
       /\ view[s] = "EXCEPTION"
       /\ sess_user[s] = NoUser
       /\ \E u \in Students :
             IsStudent(u) /\ users[u].score # FromInt(SENTINEL)

\* C19. Remaining time: whenever an evaluation classifies the instant as
\* IN_PROGRESS, the time left it computes is end_time - now for the schedule
\* it read, and lies between 0 and the duration (in ticks of the clock).
RemainingTimeBound ==
    [][\A s \in Sessions :
         (Classifies(s) /\ view'[s] = "IN_PROGRESS")
            => LET start == loc[s].start.v
                   dur == config["duration"].v * TicksPerMinute
               IN  /\ loc'[s].left = start + dur - clock
                   /\ 0 <= loc'[s].left
                   /\ loc'[s].left <= dur]_vars

\* An evaluation at the very start of the window has the whole duration left.
WholeDurationLeft ==
    \E s \in Sessions :
       /\ pc[s] = "render"
       /\ view[s] = "IN_PROGRESS"
       /\ config["duration"].k = "int"
       /\ loc[s].left = config["duration"].v * TicksPerMinute

====
